---- MODULE Spec2Model ----
(***************************************************************************)
(* Model of the contact / portfolio request handlers:                      *)
(*   exports.submit       (src/src/handlers/contact.js, 18-167)            *)
(*   sanitizeInput, validateProject, getProjects (same file, 184-331)      *)
(*   exports.list         (src/unnamed/part_000)                           *)
(* and of the rate-limited submission endpoint with resume upload, whose   *)
(* code is not among the source files and is modelled from spec.md         *)
(* sections 4.1 and 4.4.                                                   *)
(*                                                                         *)
(* JavaScript strings are sequences of one-character strings, so that the  *)
(* regular expressions, trim and startsWith are computed, not assumed.     *)
(* A JavaScript value is a record [t, s, n]: t is the type tag, s the      *)
(* characters of a string, n the value of a number.                        *)
(***************************************************************************)
EXTENDS Integers, Sequences, FiniteSets, TLC

VARIABLES
  pc,           \* position of the running invocation: "idle", an await point, "done"
  handler,      \* which handler the invocation runs
  req,          \* the event of the invocation
  cur,          \* locals of the invocation (submission under construction, query)
  calls,        \* collaborator calls issued by the invocation, in order
  resp,         \* responses returned by the invocation, in order
  table,        \* the submissions table (DYNAMODB_TABLE), in write order
  attempts,     \* rate limiter map: client identifier -> timestamps
  accepted,     \* history: client identifier -> times of its accepted attempts
  nextId,       \* source of fresh uuids
  now,          \* Date.now()
  ticks,        \* number of clock advances so far
  invocations,  \* number of invocations so far
  devMode,      \* process.env.NODE_ENV === "development"
  input,        \* argument of the pure function under check
  output,       \* its result
  output2,      \* result of applying it to its own result
  phase         \* "in", "applied", "reapplied"

vars == <<pc, handler, req, cur, calls, resp, table, attempts, accepted, nextId, now,
          ticks, invocations, devMode, input, output, output2, phase>>

handlerVars == <<pc, handler, req, cur, calls, resp, table, attempts, accepted, nextId,
                 now, ticks, invocations, devMode>>

fnVars == <<input, output, output2, phase>>

(***************************************************************************)
(* Bounds                                                                  *)
(***************************************************************************)
MaxLen == 4              \* longest string given to sanitizeInput
MaxInvocations == 2      \* invocations per behaviour of Spec
MaxTicks == 1            \* clock advances per behaviour of Spec
MaxAttempts == 5         \* requests per behaviour of RateSpec
MaxRateTicks == 2        \* clock advances per behaviour of RateSpec

(***************************************************************************)
(* JavaScript values                                                       *)
(***************************************************************************)
Undefined == [t |-> "undefined", s |-> <<>>, n |-> 0]
Null == [t |-> "null", s |-> <<>>, n |-> 0]
Str(s) == [t |-> "string", s |-> s, n |-> 0]
Num(n) == [t |-> "number", s |-> <<>>, n |-> n]
Arr == [t |-> "array", s |-> <<>>, n |-> 0]

\* ToBoolean
Truthy(v) ==
  CASE v.t = "undefined" -> FALSE
    [] v.t = "null" -> FALSE
    [] v.t = "string" -> Len(v.s) > 0
    [] v.t = "number" -> v.n # 0
    [] OTHER -> TRUE

\* characters matched by \s
Whitespace == {" ", "\t", "\n"}

\* the smallest index k >= i with s[k] = c, or 0
RECURSIVE IndexFrom(_, _, _)
IndexFrom(s, c, i) ==
  IF i > Len(s) THEN 0
  ELSE IF s[i] = c THEN i
  ELSE IndexFrom(s, c, i + 1)

\* String.prototype.startsWith
StartsWith(s, p) ==
  /\ Len(s) >= Len(p)
  /\ \A i \in 1..Len(p) : s[i] = p[i]

\* String.prototype.trim
RECURSIVE TrimLeft(_)
TrimLeft(s) ==
  IF s # <<>> /\ Head(s) \in Whitespace THEN TrimLeft(Tail(s)) ELSE s

RECURSIVE TrimRight(_)
TrimRight(s) ==
  IF s # <<>> /\ s[Len(s)] \in Whitespace
  THEN TrimRight(SubSeq(s, 1, Len(s) - 1))
  ELSE s

Trim(s) == TrimRight(TrimLeft(s))

(***************************************************************************)
(* sanitizeInput                                                           *)
(***************************************************************************)
\* s.replace(/<[^>]*>/, ""): only the first match is removed
StripFirstTag(s) ==
  LET i == IndexFrom(s, "<", 1)
      j == IF i = 0 THEN 0 ELSE IndexFrom(s, ">", i + 1)
  IN IF j = 0 THEN s
     ELSE SubSeq(s, 1, i - 1) \o SubSeq(s, j + 1, Len(s))

\* s.replace(/<[^>]*>/g, ""): scanning from the left, a "<" that has a ">"
\* after it is removed together with everything up to the nearest ">"
RECURSIVE StripTags(_)
StripTags(s) ==
  IF s = <<>> THEN <<>>
  ELSE IF Head(s) = "<" /\ IndexFrom(s, ">", 2) # 0
       THEN StripTags(SubSeq(s, IndexFrom(s, ">", 2) + 1, Len(s)))
       ELSE <<Head(s)>> \o StripTags(Tail(s))

sanitizeInput_first_only(v) ==
  IF v.t = "string" THEN Str(Trim(StripFirstTag(v.s))) ELSE v

sanitizeInput(v) ==
  IF v.t = "string" THEN Str(Trim(StripTags(v.s))) ELSE v

(***************************************************************************)
(* validateEmail                                                           *)
(***************************************************************************)
Digits == <<"0", "1", "2", "3", "4", "5", "6", "7", "8", "9">>

\* String(n) for a natural number n
RECURSIVE NumToString(_)
NumToString(n) ==
  IF n < 10 THEN <<Digits[n + 1]>>
  ELSE NumToString(n \div 10) \o <<Digits[(n % 10) + 1]>>

\* the string RegExp.prototype.test coerces its argument to
JsString(v) ==
  CASE v.t = "string" -> v.s
    [] v.t = "number" -> NumToString(v.n)
    [] v.t = "array" -> <<>>
    [] v.t = "null" -> <<"n", "u", "l", "l">>
    [] OTHER -> <<"u", "n", "d", "e", "f", "i", "n", "e", "d">>

NotSpaceOrAt(c) == c \notin Whitespace /\ c # "@"

\* /^[^\s@]+@[^\s@]+\.[^\s@]+$/ without the dot
MatchesNoDot(s) ==
  \E i \in 2..Len(s) :
    /\ s[i] = "@"
    /\ i < Len(s)
    /\ \A m \in (1..Len(s)) \ {i} : NotSpaceOrAt(s[m])

\* /^[^\s@]+@[^\s@]+\.[^\s@]+$/ : one "@" at i, after a non-empty local part;
\* a "." at k with something between "@" and it, and something after it
MatchesEmail(s) ==
  \E i \in 2..Len(s) : \E k \in 1..Len(s) :
    /\ s[i] = "@"
    /\ k > i + 1
    /\ k < Len(s)
    /\ s[k] = "."
    /\ \A m \in (1..Len(s)) \ {i} : NotSpaceOrAt(s[m])

validateEmail_no_dot(email) == MatchesNoDot(JsString(email))

validateEmail(email) == MatchesEmail(JsString(email))

(***************************************************************************)
(* validateProject                                                         *)
(***************************************************************************)
CloudinaryPrefix == <<"h", "t", "t", "p", "s", ":", "/", "/", "r", "e", "s", ".", "c", "l", "o", "u", "d", "i", "n", "a", "r", "y", ".", "c", "o", "m", "/">>

MinTitleLength == 3

\* The outcome of a call: the exception flag and the returned errors
Returned(errors) == [threw |-> FALSE, errors |-> errors]
Threw == [threw |-> TRUE, errors |-> <<>>]

\* project.imageUrl.startsWith is undefined on a truthy value that is not a
\* string (a number, an array), and calling it throws a TypeError
validateProject(project) ==
  LET category == project.category
      title == project.title
      description == project.description
      imageUrl == project.imageUrl
      tags == project.tags
      e1 == IF ~Truthy(category) \/ category.t # "string"
            THEN <<"Category is required and must be a string">> ELSE <<>>
      e2 == IF ~Truthy(title) \/ title.t # "string" \/ Len(title.s) < MinTitleLength
            THEN <<"Title is required and must be at least 3 characters">> ELSE <<>>
      e3 == IF ~Truthy(description) \/ description.t # "string"
            THEN <<"Description is required">> ELSE <<>>
      e4 == IF ~Truthy(imageUrl) \/ imageUrl.t # "string"
            THEN <<"Image URL is required">> ELSE <<>>
      e5 == IF Truthy(imageUrl) /\ ~StartsWith(imageUrl.s, CloudinaryPrefix)
            THEN <<"Image URL must be from Cloudinary">> ELSE <<>>
      e6 == IF Truthy(tags) /\ tags.t # "array"
            THEN <<"Tags must be an array">> ELSE <<>>
  IN IF Truthy(imageUrl) /\ imageUrl.t # "string"
     THEN Threw
     ELSE Returned(e1 \o e2 \o e3 \o e4 \o e5 \o e6)

(***************************************************************************)
(* Requests, records, calls and responses                                  *)
(***************************************************************************)
Absent == "absent"

\* event.body: no body, text that is not JSON, the JSON text "null", or the
\* JSON text of an object with these fields (Undefined: the key is missing)
Body(kind, name, email, message, service, resume, fileName) ==
  [kind |-> kind, name |-> name, email |-> email, message |-> message,
   service |-> service, phone |-> Undefined, company |-> Undefined,
   resume |-> resume, fileName |-> fileName]

NoBody == Body("absent", Undefined, Undefined, Undefined, Undefined, Undefined, Undefined)
GarbageBody == Body("garbage", Undefined, Undefined, Undefined, Undefined, Undefined, Undefined)
NullBody == Body("null", Undefined, Undefined, Undefined, Undefined, Undefined, Undefined)

NoQuery == [category |-> Undefined, status |-> Undefined]

Event(body, query, sourceIp) == [body |-> body, query |-> query, sourceIp |-> sourceIp]

NoEvent == Event(NoBody, NoQuery, Absent)

\* an item of the submissions table
NoSubmission ==
  [id |-> 0, name |-> Undefined, email |-> Undefined, phone |-> Undefined,
   company |-> Undefined, service |-> Undefined, message |-> Undefined,
   status |-> Absent, createdAt |-> 0, updatedAt |-> 0,
   resumeUrl |-> Absent, resumeFileName |-> Undefined, ipAddress |-> Absent]

\* a call to a collaborator, with how it settled: "pending", "ok" or "failed"
Call(op, to, item, category, status) ==
  [op |-> op, to |-> to, item |-> item, category |-> category, status |-> status,
   result |-> "pending"]

\* the calls once the pending one, the last, has settled
Settled(issued, ok) ==
  [issued EXCEPT ![Len(issued)].result = IF ok THEN "ok" ELSE "failed"]

PutCommand(item) == Call("Put", Absent, item, Undefined, Undefined)
SendEmailCommand(to, item) == Call("SendEmail", to, item, Undefined, Undefined)
QueryCommand(category, status) == Call("Query", Absent, NoSubmission, category, status)
ScanCommand(status) == Call("Scan", Absent, NoSubmission, Undefined, status)
PutObjectCommand(item) == Call("PutObject", Absent, item, Undefined, Undefined)

\* a response: the status code and the keys of the JSON body (Absent, 0 or
\* Undefined: the key is not in the body)
Response(statusCode, error, details, submissionId, category, items) ==
  [statusCode |-> statusCode, error |-> error, details |-> details,
   submissionId |-> submissionId, category |-> category, items |-> items]

ErrorResponse(statusCode, error, details) ==
  Response(statusCode, error, details, 0, Undefined, <<>>)

\* error.message of what a failed step throws
ParseMessage == "Unexpected token in JSON"
DestructureMessage == "Cannot destructure property 'name' of 'body' as it is null"
DynamoMessage == "DynamoDB request failed"
SesMessage == "SES request failed"

NoLocals == [submission |-> NoSubmission, all |-> FALSE, category |-> Undefined]

(***************************************************************************)
(* exports.submit                                                          *)
(***************************************************************************)
\* `x || d`
OrElse(x, d) == IF Truthy(x) THEN x ELSE d

GeneralInquiry ==
  Str(<<"G", "e", "n", "e", "r", "a", "l", " ", "I", "n", "q", "u", "i", "r", "y">>)

\* the submission object built at lines 56-67
Submission(body, submissionId, timestamp) ==
  [NoSubmission EXCEPT
     !.id = submissionId,
     !.name = body.name,
     !.email = body.email,
     !.phone = OrElse(body.phone, Str(<<>>)),
     !.company = OrElse(body.company, Str(<<>>)),
     !.service = OrElse(body.service, GeneralInquiry),
     !.message = body.message,
     !.status = "new",
     !.createdAt = timestamp,
     !.updatedAt = timestamp]

\* the required-field check of line 25
MissingRequired(body) ==
  ~Truthy(body.name) \/ ~Truthy(body.email) \/ ~Truthy(body.message)

\* return a response after those the invocation has returned so far (none,
\* unless the code is wrong): the invocation is over
Return(sofar, r) ==
  /\ resp' = Append(sofar, r)
  /\ pc' = "done"

\* a catch block that lets the exception escape: no response
SubmitCatch_rethrow(sofar, message) ==
  /\ resp' = sofar
  /\ pc' = "done"

\* the catch block of lines 152-166
SubmitCatch(sofar, message) ==
  Return(sofar, ErrorResponse(500, "Failed to process submission", message))

\* the invocation up to its first await: parse, validate, build the item and
\* issue the write (lines 19-75)
SubmitStart(event) ==
  /\ pc \in {"idle", "done"}
  /\ invocations' = invocations + 1
  /\ handler' = "submit"
  /\ req' = event
  /\ IF event.body.kind \in {"absent", "garbage"}
     THEN /\ SubmitCatch(<<>>, ParseMessage)
          /\ calls' = <<>>
          /\ UNCHANGED <<cur, nextId>>
     ELSE IF event.body.kind = "null"
     THEN /\ SubmitCatch(<<>>, DestructureMessage)
          /\ calls' = <<>>
          /\ UNCHANGED <<cur, nextId>>
     ELSE IF MissingRequired(event.body)
     THEN /\ Return(<<>>, ErrorResponse(400, "Missing required fields: name, email, message", Absent))
          /\ calls' = <<>>
          /\ UNCHANGED <<cur, nextId>>
     ELSE IF ~validateEmail(event.body.email)
     THEN /\ Return(<<>>, ErrorResponse(400, "Invalid email address", Absent))
          /\ calls' = <<>>
          /\ UNCHANGED <<cur, nextId>>
     ELSE /\ pc' = "put"
          /\ resp' = <<>>
          /\ cur' = [NoLocals EXCEPT !.submission = Submission(event.body, nextId, now)]
          /\ nextId' = nextId + 1
          /\ calls' = <<PutCommand(Submission(event.body, nextId, now))>>
  /\ UNCHANGED <<table, attempts, accepted, now, ticks, devMode, fnVars>>

\* await ddbDocClient.send(PutCommand) settles (lines 70-75); on success the
\* notification to the operator is issued (line 107)
PutSettles(ok) ==
  /\ pc = "put"
  /\ IF ok
     THEN /\ table' = Append(table, cur.submission)
          /\ calls' = Append(Settled(calls, TRUE),
                             SendEmailCommand("operator", cur.submission))
          /\ pc' = "send1"
          /\ resp' = resp
     ELSE /\ SubmitCatch(resp, DynamoMessage)
          /\ calls' = Settled(calls, FALSE)
          /\ table' = table
  /\ UNCHANGED <<handler, req, cur, attempts, accepted, nextId, now, ticks, invocations,
                 devMode, fnVars>>

\* a notification step that goes on to the auto-reply after a failure
NotifySettles_swallow(ok) ==
  /\ pc = "send1"
  /\ calls' = Append(Settled(calls, ok),
                     SendEmailCommand("submitter", cur.submission))
  /\ pc' = "send2"
  /\ UNCHANGED <<handler, req, cur, resp, table, attempts, accepted, nextId, now,
                 ticks, invocations, devMode, fnVars>>

\* await sesClient.send(emailParams) settles (line 107); on success the
\* auto-reply to the customer is issued (line 137)
NotifySettles(ok) ==
  /\ pc = "send1"
  /\ IF ok
     THEN /\ calls' = Append(Settled(calls, TRUE),
                             SendEmailCommand("submitter", cur.submission))
          /\ pc' = "send2"
          /\ resp' = resp
     ELSE /\ SubmitCatch(resp, SesMessage)
          /\ calls' = Settled(calls, FALSE)
  /\ UNCHANGED <<handler, req, cur, table, attempts, accepted, nextId, now, ticks,
                 invocations, devMode, fnVars>>

\* an auto-reply step that reports success whatever the send did
AutoReplySettles_ignore_failure(ok) ==
  /\ pc = "send2"
  /\ Return(resp, Response(200, Absent, Absent, cur.submission.id, Undefined, <<>>))
  /\ calls' = Settled(calls, ok)
  /\ UNCHANGED <<handler, req, cur, table, attempts, accepted, nextId, now, ticks,
                 invocations, devMode, fnVars>>

\* await sesClient.send(autoReplyParams) settles (line 137); on success the
\* handler returns 200 with the submissionId (lines 140-150)
AutoReplySettles(ok) ==
  /\ pc = "send2"
  /\ IF ok
     THEN Return(resp, Response(200, Absent, Absent, cur.submission.id, Undefined, <<>>))
     ELSE SubmitCatch(resp, SesMessage)
  /\ calls' = Settled(calls, ok)
  /\ UNCHANGED <<handler, req, cur, table, attempts, accepted, nextId, now, ticks,
                 invocations, devMode, fnVars>>

(***************************************************************************)
(* module.exports.getProjects                                              *)
(***************************************************************************)
Published == Str(<<"p", "u", "b", "l", "i", "s", "h", "e", "d">>)
Draft == Str(<<"d", "r", "a", "f", "t">>)
All == Str(<<"a", "l", "l">>)

Project(category, status, order) ==
  [category |-> category, status |-> status, order |-> order]

\* the projects table (PROJECTS_TABLE), authored outside these handlers
ProjectsTable ==
  << Project(Str(<<"A">>), Published, 2),
     Project(Str(<<"B">>), Published, 3),
     Project(Str(<<"A">>), Published, 1),
     Project(Str(<<"A">>), Draft, 1) >>

\* what the table answers to a Query on CategoryIndex or to a Scan
ItemsOf(call) ==
  LET Keep(item) ==
        /\ item.status = call.status
        /\ call.op = "Query" => item.category = call.category
  IN SelectSeq(ProjectsTable, Keep)

\* insert item into a sequence sorted by order, after the items that do not
\* come after it: Array.prototype.sort is stable
RECURSIVE InsertByOrder(_, _)
InsertByOrder(sorted, item) ==
  IF sorted = <<>> THEN <<item>>
  ELSE IF item.order - Head(sorted).order < 0 THEN <<item>> \o sorted
  ELSE <<Head(sorted)>> \o InsertByOrder(Tail(sorted), item)

\* items.sort((a, b) => a.order - b.order)
RECURSIVE SortByOrder(_)
SortByOrder(items) ==
  IF items = <<>> THEN <<>>
  ELSE InsertByOrder(SortByOrder(SubSeq(items, 1, Len(items) - 1)), items[Len(items)])

\* line 250
SanitizedCategory(category) ==
  IF Truthy(category) THEN sanitizeInput(category) ELSE Null

\* a variant that takes the lookup whenever the parameter is there
UseIndex_if_present(category) == category.t # "undefined"

\* the test of line 255: the indexed lookup is taken on a truthy sanitized
\* category
UseIndex(category) == Truthy(SanitizedCategory(category))

\* the invocation up to its await: read and sanitize the parameters, issue
\* the Query or the Scan (lines 246-290)
GetProjectsStart(event) ==
  /\ pc \in {"idle", "done"}
  /\ invocations' = invocations + 1
  /\ handler' = "getProjects"
  /\ req' = event
  /\ resp' = <<>>
  /\ pc' = "read"
  /\ LET category == event.query.category
         status == OrElse(event.query.status, Published)
         sanitizedCategory == SanitizedCategory(category)
         sanitizedStatus == sanitizeInput(status)
     IN /\ cur' = [NoLocals EXCEPT !.category = sanitizedCategory]
        /\ calls' = IF UseIndex(category)
                    THEN <<QueryCommand(sanitizedCategory, sanitizedStatus)>>
                    ELSE <<ScanCommand(sanitizedStatus)>>
  /\ UNCHANGED <<table, attempts, accepted, nextId, now, ticks, devMode, fnVars>>

\* the error key of the 500 body (lines 326-327): error.message in
\* development, left out of the JSON otherwise
GetProjectsDetail(message) == IF devMode THEN message ELSE Absent

\* the Query or Scan settles: sort and return 200 (lines 292-313), or the
\* catch block (lines 314-330)
GetProjectsSettles(ok) ==
  /\ pc = "read"
  /\ handler = "getProjects"
  /\ IF ok
     THEN Return(resp, Response(200, Absent, Absent, 0,
                                OrElse(cur.category, All),
                                SortByOrder(ItemsOf(calls[Len(calls)]))))
     ELSE Return(resp, ErrorResponse(500, "Failed to fetch projects",
                                     GetProjectsDetail(DynamoMessage)))
  /\ calls' = Settled(calls, ok)
  /\ UNCHANGED <<handler, req, cur, table, attempts, accepted, nextId, now, ticks,
                 invocations, devMode, fnVars>>

(***************************************************************************)
(* exports.list                                                            *)
(***************************************************************************)
\* insert item into a sequence sorted by createdAt descending
RECURSIVE InsertByCreatedAtDesc(_, _)
InsertByCreatedAtDesc(sorted, item) ==
  IF sorted = <<>> THEN <<item>>
  ELSE IF Head(sorted).createdAt - item.createdAt < 0 THEN <<item>> \o sorted
  ELSE <<Head(sorted)>> \o InsertByCreatedAtDesc(Tail(sorted), item)

\* submissions.sort((a, b) => b.createdAt - a.createdAt)
RECURSIVE SortByCreatedAtDesc(_)
SortByCreatedAtDesc(items) ==
  IF items = <<>> THEN <<>>
  ELSE InsertByCreatedAtDesc(SortByCreatedAtDesc(SubSeq(items, 1, Len(items) - 1)),
                             items[Len(items)])

\* the invocation up to its await: issue the Scan of the submissions table
\* (lines 7-12)
ListStart ==
  /\ pc \in {"idle", "done"}
  /\ invocations' = invocations + 1
  /\ handler' = "list"
  /\ req' = NoEvent
  /\ resp' = <<>>
  /\ pc' = "read"
  /\ cur' = [NoLocals EXCEPT !.all = TRUE]
  /\ calls' = <<ScanCommand(Undefined)>>
  /\ UNCHANGED <<table, attempts, accepted, nextId, now, ticks, devMode, fnVars>>

\* the Scan settles: unmarshall, sort and return 200 (lines 14-29), or the
\* catch block, whose body has the error key alone (lines 31-44)
ListSettles(ok) ==
  /\ pc = "read"
  /\ handler = "list"
  /\ IF ok
     THEN Return(resp, Response(200, Absent, Absent, 0, Undefined,
                                SortByCreatedAtDesc(table)))
     ELSE Return(resp, ErrorResponse(500, "Failed to retrieve submissions", Absent))
  /\ calls' = Settled(calls, ok)
  /\ UNCHANGED <<handler, req, cur, table, attempts, accepted, nextId, now, ticks,
                 invocations, devMode, fnVars>>

(***************************************************************************)
(* The rate-limited submission endpoint (spec.md 4.1 and 4.4): the rate    *)
(* limiter and the resume upload around the steps of exports.submit        *)
(***************************************************************************)
WINDOW_MS == 60000
MAX_PER_WINDOW == 3

Clients == {"ip1", "unknown"}

\* the client's timestamps within WINDOW_MS of the time t
Recent(stamps, t) == SelectSeq(stamps, LAMBDA x : t - x < WINDOW_MS)

\* a limiter that records the rejected attempts too
Allow_record_rejected(limiter, clientId, t) ==
  [allowed |-> Len(Recent(limiter[clientId], t)) < MAX_PER_WINDOW,
   limiter |-> [limiter EXCEPT ![clientId] = Append(Recent(limiter[clientId], t), t)]]

\* allow(clientId) at time t on the map limiter: the answer and the map after
Allow(limiter, clientId, t) ==
  LET filtered == Recent(limiter[clientId], t)
  IN IF Len(filtered) >= MAX_PER_WINDOW
     THEN [allowed |-> FALSE, limiter |-> limiter]
     ELSE [allowed |-> TRUE,
           limiter |-> [limiter EXCEPT ![clientId] = Append(filtered, t)]]

\* step 1: the client identifier, "unknown" when the request has none
ClientId(event) == IF event.sourceIp = Absent THEN "unknown" ELSE event.sourceIp

\* step 7: a file is uploaded when payload and file name are both there
HasResume(body) == Truthy(body.resume) /\ Truthy(body.fileName)

\* the record after the upload settled: the resume fields are set only when
\* the upload succeeded
AfterUpload(submission, body, ok) ==
  IF ok
  THEN [submission EXCEPT !.resumeUrl = "resumes/id/file",
                          !.resumeFileName = body.fileName]
  ELSE submission

\* steps 1-8 up to the first await: rate limit, parse, validate, then the
\* upload or the write is issued
LimitedStart(event) ==
  /\ pc \in {"idle", "done"}
  /\ invocations' = invocations + 1
  /\ handler' = "limited"
  /\ req' = event
  /\ LET verdict == Allow(attempts, ClientId(event), now)
         item == [Submission(event.body, nextId, now) EXCEPT
                    !.ipAddress = ClientId(event)]
     IN /\ attempts' = verdict.limiter
        /\ accepted' = IF verdict.allowed
                       THEN [accepted EXCEPT ![ClientId(event)] = Append(@, now)]
                       ELSE accepted
        /\ IF ~verdict.allowed
           THEN /\ Return(<<>>, ErrorResponse(429, "Too many requests", Absent))
                /\ calls' = <<>>
                /\ UNCHANGED <<cur, nextId>>
           ELSE IF event.body.kind \in {"absent", "garbage"}
           THEN /\ SubmitCatch(<<>>, ParseMessage)
                /\ calls' = <<>>
                /\ UNCHANGED <<cur, nextId>>
           ELSE IF event.body.kind = "null"
           THEN /\ SubmitCatch(<<>>, DestructureMessage)
                /\ calls' = <<>>
                /\ UNCHANGED <<cur, nextId>>
           ELSE IF MissingRequired(event.body)
           THEN /\ Return(<<>>, ErrorResponse(400, "Missing required fields: name, email, message", Absent))
                /\ calls' = <<>>
                /\ UNCHANGED <<cur, nextId>>
           ELSE IF ~validateEmail(event.body.email)
           THEN /\ Return(<<>>, ErrorResponse(400, "Invalid email address", Absent))
                /\ calls' = <<>>
                /\ UNCHANGED <<cur, nextId>>
           ELSE /\ resp' = <<>>
                /\ cur' = [NoLocals EXCEPT !.submission = item]
                /\ nextId' = nextId + 1
                /\ IF HasResume(event.body)
                   THEN /\ pc' = "upload"
                        /\ calls' = <<PutObjectCommand(item)>>
                   ELSE /\ pc' = "put"
                        /\ calls' = <<PutCommand(item)>>
  /\ UNCHANGED <<table, now, ticks, devMode, fnVars>>

\* an upload step whose failure ends the request in the catch block
UploadSettles_abort(ok) ==
  /\ pc = "upload"
  /\ IF ok
     THEN /\ cur' = [cur EXCEPT !.submission = AfterUpload(cur.submission, req.body, TRUE)]
          /\ calls' = Append(Settled(calls, TRUE),
                             PutCommand(AfterUpload(cur.submission, req.body, TRUE)))
          /\ pc' = "put"
          /\ resp' = resp
     ELSE /\ SubmitCatch(resp, "Upload failed")
          /\ calls' = Settled(calls, FALSE)
          /\ cur' = cur
  /\ UNCHANGED <<handler, req, table, attempts, accepted, nextId, now, ticks,
                 invocations, devMode, fnVars>>

\* step 7: the upload settles; a failure is logged and the request goes on
\* to the write of step 8 without the resume fields
UploadSettles(ok) ==
  /\ pc = "upload"
  /\ LET item == AfterUpload(cur.submission, req.body, ok)
     IN /\ cur' = [cur EXCEPT !.submission = item]
        /\ calls' = Append(Settled(calls, ok), PutCommand(item))
  /\ pc' = "put"
  /\ UNCHANGED <<handler, req, resp, table, attempts, accepted, nextId, now, ticks,
                 invocations, devMode, fnVars>>

(***************************************************************************)
(* The clock                                                               *)
(***************************************************************************)
\* Date.now() moves on between two invocations
Tick(d) ==
  /\ pc \in {"idle", "done"}
  /\ now' = now + d
  /\ ticks' = ticks + 1
  /\ UNCHANGED <<pc, handler, req, cur, calls, resp, table, attempts, accepted, nextId,
                 invocations, devMode, fnVars>>

(***************************************************************************)
(* Inputs                                                                  *)
(***************************************************************************)
Names == {Undefined, Str(<<"N">>)}
Emails ==
  { Undefined, Str(<<>>), Num(5),
    Str(<<"a", "@", "b">>),
    Str(<<"a", " ", "@", "b", ".", "c">>),
    Str(<<"a", "@", "b", ".", "c", "o">>) }
Messages == {Undefined, Str(<<>>), Str(<<"m">>)}
Services == {Undefined, Str(<<"S">>)}

SubmitBodies ==
  {NoBody, GarbageBody, NullBody} \cup
  { Body("object", n, e, m, s, Undefined, Undefined) :
      n \in Names, e \in Emails, m \in Messages, s \in Services }

SubmitEvents == { Event(b, NoQuery, "ip1") : b \in SubmitBodies }

Categories ==
  { Undefined, Str(<<>>), Str(<<" ">>), Str(<<"A">>), Str(<<"B">>),
    Str(<<"<", "b", ">">>), Str(<<"<", "b", ">", "A", " ">>) }
Statuses == {Undefined, Draft, Str(<<"<", "i", ">">> \o Draft.s)}

GetProjectsEvents ==
  { Event(NoBody, [category |-> c, status |-> st], "ip1") :
      c \in Categories, st \in Statuses }

ValidBody(resume, fileName) ==
  Body("object", Str(<<"N">>), Str(<<"a", "@", "b", ".", "c", "o">>),
       Str(<<"m">>), Undefined, resume, fileName)

\* bodies of the rate-limited endpoint
LimitedBodies ==
  { GarbageBody, NullBody,
    Body("object", Str(<<"N">>), Undefined, Str(<<"m">>), Undefined, Undefined, Undefined),
    Body("object", Str(<<"N">>), Str(<<"a", "@", "b">>), Str(<<"m">>), Undefined,
         Str(<<"J", "V">>), Str(<<"c", "v">>)),
    ValidBody(Undefined, Undefined),
    ValidBody(Str(<<"J", "V">>), Undefined),
    ValidBody(Str(<<"J", "V">>), Str(<<"c", "v">>)) }

LimitedEvents == { Event(b, NoQuery, ip) : b \in LimitedBodies, ip \in {"ip1", Absent} }

\* requests that reach the rate limiter and end before any collaborator call
RateEvents ==
  { Event(b, NoQuery, ip) :
      b \in {GarbageBody,
             Body("object", Str(<<"N">>), Undefined, Str(<<"m">>), Undefined,
                  Undefined, Undefined)},
      ip \in {"ip1", Absent} }

\* how far the clock moves in one step
TickSteps == {1, WINDOW_MS - 1}

(***************************************************************************)
(* The handlers of the source files: submit, getProjects, list             *)
(***************************************************************************)
InitHandlers ==
  /\ pc = "idle"
  /\ handler = "none"
  /\ req = NoEvent
  /\ cur = NoLocals
  /\ calls = <<>>
  /\ resp = <<>>
  /\ table = <<>>
  /\ attempts = [c \in Clients |-> <<>>]
  /\ accepted = [c \in Clients |-> <<>>]
  /\ nextId = 1
  /\ now = 0
  /\ ticks = 0
  /\ invocations = 0

InitFn ==
  /\ input = Undefined
  /\ output = Undefined
  /\ output2 = Undefined
  /\ phase = "none"

Init ==
  /\ InitHandlers
  /\ devMode \in BOOLEAN
  /\ InitFn

Next ==
  \/ \E event \in SubmitEvents : invocations < MaxInvocations /\ SubmitStart(event)
  \/ \E ok \in BOOLEAN : PutSettles(ok)
  \/ \E ok \in BOOLEAN : NotifySettles(ok)
  \/ \E ok \in BOOLEAN : AutoReplySettles(ok)
  \/ \E event \in GetProjectsEvents : invocations < MaxInvocations /\ GetProjectsStart(event)
  \/ \E ok \in BOOLEAN : GetProjectsSettles(ok)
  \/ invocations < MaxInvocations /\ ListStart
  \/ \E ok \in BOOLEAN : ListSettles(ok)
  \/ \E d \in TickSteps : ticks < MaxTicks /\ Tick(d)

Spec == Init /\ [][Next]_vars

\* every collaborator call settles, and the handler resumes after it
Settles ==
  \/ \E ok \in BOOLEAN : PutSettles(ok)
  \/ \E ok \in BOOLEAN : NotifySettles(ok)
  \/ \E ok \in BOOLEAN : AutoReplySettles(ok)
  \/ \E ok \in BOOLEAN : GetProjectsSettles(ok)
  \/ \E ok \in BOOLEAN : ListSettles(ok)

LiveSpec == Spec /\ WF_vars(Settles)

(***************************************************************************)
(* The rate-limited submission endpoint                                    *)
(***************************************************************************)
LimitedNext ==
  \/ \E event \in LimitedEvents : invocations < MaxInvocations /\ LimitedStart(event)
  \/ \E ok \in BOOLEAN : UploadSettles(ok)
  \/ \E ok \in BOOLEAN : PutSettles(ok)
  \/ \E ok \in BOOLEAN : NotifySettles(ok)
  \/ \E ok \in BOOLEAN : AutoReplySettles(ok)
  \/ \E d \in TickSteps : ticks < MaxTicks /\ Tick(d)

LimitedSpec == Init /\ [][LimitedNext]_vars

\* the rate limiter under requests that end before any collaborator call
RateNext ==
  \/ \E event \in RateEvents : invocations < MaxAttempts /\ LimitedStart(event)
  \/ \E d \in TickSteps : ticks < MaxRateTicks /\ Tick(d)

RateSpec == Init /\ [][RateNext]_vars

(***************************************************************************)
(* sanitizeInput applied to bounded inputs, then to its own result         *)
(***************************************************************************)
SanitizeAlphabet == {"<", ">", " ", "a"}

SanitizeStrings == UNION { [1..k -> SanitizeAlphabet] : k \in 0..MaxLen }

SanitizeInputs ==
  { Str(s) : s \in SanitizeStrings } \cup {Undefined, Null, Num(0), Num(7), Arr}

SanitizeInit ==
  /\ InitHandlers
  /\ devMode = FALSE
  /\ input \in SanitizeInputs
  /\ output = Undefined
  /\ output2 = Undefined
  /\ phase = "in"

ApplySanitize ==
  /\ phase = "in"
  /\ output' = sanitizeInput(input)
  /\ phase' = "applied"
  /\ UNCHANGED <<handlerVars, input, output2>>

ReapplySanitize ==
  /\ phase = "applied"
  /\ output2' = sanitizeInput(output)
  /\ phase' = "reapplied"
  /\ UNCHANGED <<handlerVars, input, output>>

SanitizeNext == ApplySanitize \/ ReapplySanitize

SanitizeSpec == SanitizeInit /\ [][SanitizeNext]_vars

(***************************************************************************)
(* validateProject applied to projects with fields of every type           *)
(***************************************************************************)
CategoryValues ==
  {Undefined, Null, Str(<<>>), Str(<<"A">>), Num(0), Num(5), Arr}
TitleValues ==
  {Undefined, Str(<<>>), Str(<<"H", "i">>), Str(<<"H", "e", "y">>), Num(123), Arr}
DescriptionValues == {Undefined, Str(<<>>), Str(<<"d">>), Num(1)}
ImageUrlValues ==
  { Undefined, Str(<<>>), Num(0), Num(42), Arr,
    Str(<<"h", "t", "t", "p">>),
    Str(SubSeq(CloudinaryPrefix, 1, Len(CloudinaryPrefix) - 1)),
    Str(CloudinaryPrefix),
    Str(CloudinaryPrefix \o <<"x">>) }
TagsValues == {Undefined, Arr, Str(<<"t">>), Str(<<>>), Num(0), Num(3)}

ProjectInputs ==
  { [category |-> c, title |-> t, description |-> d, imageUrl |-> i, tags |-> g] :
      c \in CategoryValues, t \in TitleValues, d \in DescriptionValues,
      i \in ImageUrlValues, g \in TagsValues }

ValidateInit ==
  /\ InitHandlers
  /\ devMode = FALSE
  /\ input \in ProjectInputs
  /\ output = Returned(<<>>)
  /\ output2 = Undefined
  /\ phase = "in"

ApplyValidate ==
  /\ phase = "in"
  /\ output' = validateProject(input)
  /\ phase' = "applied"
  /\ UNCHANGED <<handlerVars, input, output2>>

ValidateNext == ApplyValidate

ValidateSpec == ValidateInit /\ [][ValidateNext]_vars

(***************************************************************************)
(* Properties                                                              *)
(***************************************************************************)
\* s has a "<" with a ">" somewhere after it
HasTag(s) == \E i \in 1..Len(s) : \E j \in 1..Len(s) : i < j /\ s[i] = "<" /\ s[j] = ">"

\* s starts or ends with whitespace
HasOuterSpace(s) == s # <<>> /\ (s[1] \in Whitespace \/ s[Len(s)] \in Whitespace)

\* C8: the result of sanitizeInput on a string has no "<" followed later by a
\* ">" and no leading or trailing whitespace, so that a second application
\* changes nothing; an input that is not a string is returned unchanged
C8_SanitizeClean ==
  /\ (phase \in {"applied", "reapplied"} /\ input.t = "string") =>
       /\ output.t = "string"
       /\ ~HasTag(output.s)
       /\ ~HasOuterSpace(output.s)
  /\ (phase \in {"applied", "reapplied"} /\ input.t # "string") => output = input
  /\ phase = "reapplied" => output2 = output

\* C8 witness: a string with a tag and outer whitespace was sanitized twice
C8_Witness ==
  /\ phase = "reapplied"
  /\ input.t = "string"
  /\ HasTag(input.s)
  /\ HasOuterSpace(input.s)
  /\ output.s = <<"a">>

\* the claim's reading of a request that fails validation: a parsed body
\* with name, email or message missing or falsy, or with an email that does
\* not match the pattern
FailsValidation(body) ==
  /\ body.kind = "object"
  /\ \/ ~Truthy(body.name)
     \/ ~Truthy(body.email)
     \/ ~Truthy(body.message)
     \/ ~MatchesEmail(JsString(body.email))

\* C2: a submit request that fails validation ends at once in a single 400
\* response with an error text; the invocation issues no collaborator call
\* and the submissions table is left as it was
C2_InvalidNoCalls ==
  [][(handler' = "submit" /\ FailsValidation(req'.body)) =>
       /\ pc' = "done"
       /\ Len(resp') = 1
       /\ resp'[1].statusCode = 400
       /\ resp'[1].error # Absent
       /\ calls' = <<>>
       /\ table' = table]_vars

\* C2 witness: after a submission was stored, a request whose email has no
\* dot in its domain was answered 400
C2_Witness ==
  /\ handler = "submit"
  /\ pc = "done"
  /\ Truthy(req.body.name)
  /\ req.body.email = Str(<<"a", "@", "b">>)
  /\ Truthy(req.body.message)
  /\ resp[1].statusCode = 400
  /\ Len(table) = 1

\* some send of the invocation failed
SendFailed == \E i \in 1..Len(calls) : calls[i].op = "SendEmail" /\ calls[i].result = "failed"

\* C3: when a send fails in submit, no call follows the failed one (after a
\* failed notification there is no auto-reply), the response is the generic
\* 500, and the record written by the invocation is in the table as written;
\* no step ever removes or changes an item of the table
C3_SendFailureKeepsRecord ==
  /\ []((handler = "submit" /\ SendFailed) =>
          /\ calls[Len(calls)].result = "failed"
          /\ \A i \in 1..(Len(calls) - 1) : calls[i].result = "ok"
          /\ pc = "done"
          /\ Len(resp) = 1
          /\ resp[1].statusCode = 500
          /\ resp[1].error = "Failed to process submission"
          /\ resp[1].submissionId = 0
          /\ calls[1].op = "Put"
          /\ table # <<>>
          /\ table[Len(table)] = calls[1].item
          /\ table[Len(table)].status = "new")
  /\ [][/\ Len(table') >= Len(table)
        /\ SubSeq(table', 1, Len(table)) = table]_vars

\* C3 witness: the notification to the operator failed
C3_Witness ==
  /\ handler = "submit"
  /\ Len(calls) = 2
  /\ calls[2].op = "SendEmail"
  /\ calls[2].to = "operator"
  /\ calls[2].result = "failed"
  /\ pc = "done"

\* the number of calls of the invocation with this operation
CountCalls(op) == Cardinality({i \in 1..Len(calls) : calls[i].op = op})

\* C9: submit issues at most one write and two sends, each call only after
\* the one before it succeeded; it returns 200 only when the write, then the
\* notification to the operator, then the auto-reply to the submitter have
\* succeeded, with the id of the record written, which has status "new" and
\* updatedAt equal to createdAt
C9_SuccessOrder ==
  handler = "submit" =>
    /\ CountCalls("Put") <= 1
    /\ CountCalls("SendEmail") <= 2
    /\ \A i \in 1..(Len(calls) - 1) : calls[i].result = "ok"
    /\ (\E i \in 1..Len(resp) : resp[i].statusCode = 200) =>
         /\ Len(calls) = 3
         /\ calls[1].op = "Put" /\ calls[1].result = "ok"
         /\ calls[2].op = "SendEmail" /\ calls[2].to = "operator" /\ calls[2].result = "ok"
         /\ calls[3].op = "SendEmail" /\ calls[3].to = "submitter" /\ calls[3].result = "ok"
         /\ resp[1].submissionId = calls[1].item.id
         /\ table # <<>>
         /\ table[Len(table)] = calls[1].item
         /\ Cardinality({i \in 1..Len(table) : table[i].id = resp[1].submissionId}) = 1
         /\ table[Len(table)].status = "new"
         /\ table[Len(table)].updatedAt = table[Len(table)].createdAt

\* C9 witness: a second submission succeeded, after the clock moved
C9_Witness ==
  /\ handler = "submit"
  /\ pc = "done"
  /\ resp[1].statusCode = 200
  /\ resp[1].submissionId = 2
  /\ Len(table) = 2
  /\ table[2].createdAt > table[1].createdAt

\* C5, as claimed: a 500 response carries text taken from the exception only
\* when it is the response of list and the development flag is set
C5_DetailOnlyInListDev ==
  \A i \in 1..Len(resp) :
    (resp[i].statusCode = 500 /\ resp[i].details # Absent) =>
      (handler = "list" /\ devMode)

\* C6: a submit invocation that is running ends; when it has ended it has
\* returned exactly one response, with status 200, 400, 429 or 500, and none
\* before; a body that cannot be parsed or destructured and a failed write or
\* send end in a 500 response; no call is issued a second time
C6_SubmitEnds ==
  /\ [](handler = "submit" =>
          /\ pc # "done" => resp = <<>>
          /\ pc = "done" =>
               /\ Len(resp) = 1
               /\ resp[1].statusCode \in {200, 400, 429, 500}
          /\ (pc = "done" /\ req.body.kind # "object") => resp[1].statusCode = 500
          /\ (\E i \in 1..Len(calls) : calls[i].result = "failed") =>
               (pc = "done" /\ resp[1].statusCode = 500)
          /\ \A i \in 1..Len(calls) : \A j \in 1..Len(calls) :
               (calls[i].op = calls[j].op /\ calls[i].to = calls[j].to) => i = j)
  /\ (handler = "submit" /\ pc # "done") ~> (handler = "submit" /\ pc = "done")

\* C6 witness: the write of a valid submission failed and the invocation
\* ended in a 500 response
C6_Witness ==
  /\ handler = "submit"
  /\ pc = "done"
  /\ Len(calls) = 1
  /\ calls[1].op = "Put"
  /\ calls[1].result = "failed"
  /\ resp[1].statusCode = 500
  /\ invocations = 2

\* the first response of a getProjects invocation that has ended in 200
Answered == pc = "done" /\ resp[1].statusCode = 200

\* the status the lookup and the scan are filtered by
FilterStatus == sanitizeInput(OrElse(req.query.status, Published))

\* C10, as claimed: getProjects takes the indexed lookup on the sanitized
\* category, and reports it, whenever the request has a category parameter,
\* and takes the scan and reports "all" only when it has none
C10_LookupWheneverPresent ==
  handler = "getProjects" =>
    /\ req.query.category.t # "undefined" =>
         /\ calls[1].op = "Query"
         /\ calls[1].category = sanitizeInput(req.query.category)
         /\ Answered => resp[1].category = sanitizeInput(req.query.category)
    /\ req.query.category.t = "undefined" =>
         /\ calls[1].op = "Scan"
         /\ Answered => resp[1].category = All

\* the category parameter is a string that sanitizeInput does not reduce to
\* the empty string
NonEmptyCategory ==
  /\ req.query.category.t = "string"
  /\ Trim(StripTags(req.query.category.s)) # <<>>

\* C10, amended: getProjects takes the indexed lookup on the sanitized
\* category, filtered by status, and reports that category, when the
\* category parameter sanitizes to a non-empty string; when the parameter is
\* absent, empty or sanitizes to the empty string it takes the scan filtered
\* by status and reports "all"
C10_LookupWhenNonEmpty ==
  handler = "getProjects" =>
    /\ Len(calls) = 1
    /\ calls[1].status = FilterStatus
    /\ NonEmptyCategory =>
         /\ calls[1].op = "Query"
         /\ calls[1].category = Str(Trim(StripTags(req.query.category.s)))
         /\ Answered => resp[1].category = calls[1].category
    /\ ~NonEmptyCategory =>
         /\ calls[1].op = "Scan"
         /\ Answered => resp[1].category = All
    /\ Answered =>
         \A i \in 1..Len(resp[1].items) :
           /\ resp[1].items[i].status = FilterStatus
           /\ NonEmptyCategory => resp[1].items[i].category = calls[1].category

\* C10 witness: a category that is only a tag was answered with the scan of
\* all published projects
C10_Witness ==
  /\ handler = "getProjects"
  /\ req.query.category = Str(<<"<", "b", ">">>)
  /\ Answered
  /\ calls[1].op = "Scan"
  /\ resp[1].category = All
  /\ Len(resp[1].items) = 3

\* the rules of validateProject as the claim states them
IsNonEmptyString(v) == v.t = "string" /\ v.s # <<>>
ViolatesCategory(p) == ~IsNonEmptyString(p.category)
ViolatesTitle(p) == ~(IsNonEmptyString(p.title) /\ Len(p.title.s) >= 3)
ViolatesDescription(p) == ~IsNonEmptyString(p.description)
ViolatesImageUrl(p) ==
  ~(IsNonEmptyString(p.imageUrl) /\ StartsWith(p.imageUrl.s, CloudinaryPrefix))
\* tags count as present when they are truthy, the reading that favours the
\* code: a falsy scalar ("" or 0) passes its test of line 223
ViolatesTags(p) == Truthy(p.tags) /\ p.tags.t # "array"

\* the number of errors among these texts in the returned list
CountErrors(errors, texts) == Cardinality({i \in 1..Len(errors) : errors[i] \in texts})

\* C7, as claimed: validateProject returns without throwing, for a project
\* with fields of any type; the list has one error for each violated rule,
\* whatever the other rules say, and is empty exactly when no rule is violated
C7_ValidateTotal ==
  phase = "applied" =>
    /\ ~output.threw
    /\ CountErrors(output.errors, {"Category is required and must be a string"})
         = IF ViolatesCategory(input) THEN 1 ELSE 0
    /\ CountErrors(output.errors, {"Title is required and must be at least 3 characters"})
         = IF ViolatesTitle(input) THEN 1 ELSE 0
    /\ CountErrors(output.errors, {"Description is required"})
         = IF ViolatesDescription(input) THEN 1 ELSE 0
    /\ CountErrors(output.errors, {"Image URL is required", "Image URL must be from Cloudinary"})
         = IF ViolatesImageUrl(input) THEN 1 ELSE 0
    /\ CountErrors(output.errors, {"Tags must be an array"})
         = IF ViolatesTags(input) THEN 1 ELSE 0
    /\ output.errors = <<>> <=>
         ~(\/ ViolatesCategory(input) \/ ViolatesTitle(input)
           \/ ViolatesDescription(input) \/ ViolatesImageUrl(input)
           \/ ViolatesTags(input))

\* the rest of the claim, for the calls that return
C7_ErrorsWhenReturned == (phase = "applied" /\ output.threw) \/ C7_ValidateTotal

\* the accepted attempts of client c that are less than 60,000 ms old
InWindow(c) ==
  Cardinality({i \in 1..Len(accepted[c]) : now - accepted[c][i] < 60000})

\* C1: an attempt of a client with 3 accepted attempts in the last 60,000 ms
\* is answered 429 and leaves the limiter as it was; an attempt of a client
\* with fewer, so also one made 60,000 ms or more after the oldest of 3, is
\* accepted and recorded; the entries of the other clients are not touched
C1_RateLimit ==
  [][invocations' = invocations + 1 =>
       LET c == ClientId(req')
       IN /\ InWindow(c) <= 3
          /\ InWindow(c) = 3 =>
               /\ Len(resp') = 1
               /\ resp'[1].statusCode = 429
               /\ attempts' = attempts
               /\ accepted' = accepted
               /\ calls' = <<>>
          /\ InWindow(c) < 3 =>
               /\ \A i \in 1..Len(resp') : resp'[i].statusCode # 429
               /\ accepted'[c] = Append(accepted[c], now)
               /\ Len(attempts'[c]) = InWindow(c) + 1
               /\ attempts'[c][Len(attempts'[c])] = now
          /\ \A d \in Clients \ {c} :
               attempts'[d] = attempts[d] /\ accepted'[d] = accepted[d]]_vars

\* C1 witness: of five attempts, all of ip1, the first three were accepted
\* at once, one was rejected, and one was accepted 60,000 ms after the first
C1_Witness ==
  /\ invocations = 5
  /\ Len(accepted["ip1"]) = 4
  /\ accepted["ip1"][3] = accepted["ip1"][1]
  /\ accepted["ip1"][4] = accepted["ip1"][1] + 60000
  /\ accepted["unknown"] = <<>>
  /\ resp[1].statusCode # 429

\* the upload of the invocation failed
UploadFailed ==
  /\ handler = "limited"
  /\ calls # <<>>
  /\ calls[1].op = "PutObject"
  /\ calls[1].result = "failed"

\* C4: after a failed upload the request goes on: the write is issued with
\* the resume fields of the record empty; when the write succeeds that
\* record is in the table and the emails are sent; when the write and both
\* sends succeed the response is 200 with the id of the record
C4_UploadFailureGoesOn ==
  UploadFailed =>
    /\ Len(calls) >= 2
    /\ calls[2].op = "Put"
    /\ calls[2].item.resumeUrl = Absent
    /\ calls[2].item.resumeFileName = Undefined
    /\ calls[2].item.id = nextId - 1
    /\ calls[2].result = "ok" =>
         /\ table[Len(table)] = calls[2].item
         /\ Len(calls) >= 3
         /\ calls[3].op = "SendEmail"
    /\ (Len(calls) = 4 /\ calls[4].result = "ok") =>
         /\ pc = "done"
         /\ Len(resp) = 1
         /\ resp[1].statusCode = 200
         /\ resp[1].submissionId = calls[2].item.id
    /\ (pc = "done" /\ resp[1].statusCode # 200) =>
         \E i \in 2..Len(calls) : calls[i].result = "failed"

\* C4 witness: the upload failed and the request ended in 200
C4_Witness ==
  /\ UploadFailed
  /\ pc = "done"
  /\ resp[1].statusCode = 200
  /\ table[Len(table)].resumeUrl = Absent
  /\ Truthy(req.body.resume)
  /\ Truthy(req.body.fileName)

====
